---- MODULE Spec2Model ----
(***************************************************************************)
(* DocuQuery: the VectorStoreManager of src/utils/vector_store.py, the one *)
(* shared instance src/app.py builds at import time, and the snapshot it   *)
(* keeps on disk.                                                          *)
(*                                                                         *)
(* The specifications share the state:                                     *)
(*   Spec          a single caller: every method call is one atomic action;*)
(*   SpecConc      request threads of a threaded server: every method is   *)
(*                 cut where another thread can run in between;            *)
(*   SpecIngest    insertions with malformed batches and changing models;  *)
(*   SpecAnswer    LLMHandler.generate_answer;                             *)
(*   SpecChunk     TextChunker.chunk_text;                                 *)
(*   SpecConstruct the TextChunker constructor;                            *)
(*   SpecUpload    the upload and delete handlers of src/app.py.           *)
(*                                                                         *)
(* The FAISS store and the embedder are libraries. They are modelled by    *)
(* what the calls the source makes do: an index of vectors searched by     *)
(* squared L2 distance, a position -> Document map beside it, a snapshot   *)
(* of two files (index.faiss, index.pkl).                                  *)
(***************************************************************************)
EXTENDS Integers, Sequences, FiniteSets, TLC

(***************************************************************************)
(* Bounds of the model.                                                    *)
(***************************************************************************)
\* longest list of chunks one call is given
MaxBatch == 2
\* the index is not grown beyond this many records
MaxStore == 3
\* largest top_k a caller passes
MaxK == 2
\* request threads of SpecConc
NThreads == 2
\* longest vector an embedding model returns (SpecDim)
MaxDim == 2
\* method calls the threads of SpecConc make in all
MaxCalls == 3

(***************************************************************************)
(* Program constants.                                                      *)
(***************************************************************************)
\* Config.TOP_K_RESULTS
TOP_K_RESULTS == 3
\* Config.CHUNK_SIZE
CHUNK_SIZE == 1000
\* Config.CHUNK_OVERLAP
CHUNK_OVERLAP == 200

(***************************************************************************)
(* Data: chunks, queries, the embedder.                                    *)
(***************************************************************************)
\* A chunk is {'text': ..., 'metadata': {...}}.
ChunkA == [text |-> "alpha", metadata |-> [filename |-> "f1.txt", chunk_index |-> 0]]

ChunkB == [text |-> "beta", metadata |-> [filename |-> "f2.txt", chunk_index |-> 1]]

Chunks == {ChunkA, ChunkB}

\* "gamma" lies as far from "alpha" as from "beta"; "delta" lies nearer "beta"
Queries == {"gamma", "delta"}

\* top_k as the caller passes it; 0 stands for both None and 0 (both falsy)
TopKs == 0 .. MaxK

RECURSIVE SeqsUpTo(_, _)
SeqsUpTo(S, n) ==
    IF n = 0 THEN {<< >>}
    ELSE LET shorter == SeqsUpTo(S, n - 1)
         IN  shorter \cup {Append(s, x) : s \in {r \in shorter : Len(r) = n - 1}, x \in S}

\* the chunk lists a caller passes, the empty list included
Batches == SeqsUpTo(Chunks, MaxBatch)

\* what a caller can pass in place of a chunk: a dict without 'text', a dict
\* without 'metadata'
ChunkNoText == [metadata |-> [filename |-> "f3.txt", chunk_index |-> 0]]

ChunkNoMetadata == [text |-> "alpha"]

BadChunks == {ChunkNoText, ChunkNoMetadata}

\* chunk['text'] or chunk['metadata'] raises KeyError (lines 42 and 66)
Malformed(chunk) == ~({"text", "metadata"} \subseteq DOMAIN chunk)

\* the lists a caller passes when some entries may be malformed
AnyBatches == SeqsUpTo(Chunks \cup BadChunks, MaxBatch)

\* the length of the vectors the embedding model of this process returns
\* (Config.EMBEDDING_MODEL, handed to OpenAIEmbeddings in __init__)
VARIABLE embedding_dim

\* the direction the model gives a text
Direction(text) ==
    CASE text = "alpha" -> <<0, 0>>
      [] text = "beta"  -> <<2, 0>>
      [] text = "gamma" -> <<1, 1>>
      [] OTHER          -> <<2, 1>>

\* OpenAIEmbeddings: a fixed function from a text to a vector, every vector
\* of the length of the model in use
Embed(text) ==
    LET v == Direction(text)
    IN  IF embedding_dim = Len(v) THEN v
        ELSE [i \in 1 .. embedding_dim |-> IF i <= Len(v) THEN v[i] ELSE 0]

\* the length of the vectors of the model the source names (Config.EMBEDDING_MODEL)
ModelDim == Len(Direction("alpha"))

\* squared L2 distance, the metric of the flat index FAISS.from_documents builds
RECURSIVE SumSquares(_, _, _)
SumSquares(u, v, i) ==
    IF i = 0 THEN 0 ELSE (u[i] - v[i]) * (u[i] - v[i]) + SumSquares(u, v, i - 1)

\* (the sum over two components is written out)
L2(u, v) ==
    IF Len(u) = 2
    THEN (u[1] - v[1]) * (u[1] - v[1]) + (u[2] - v[2]) * (u[2] - v[2])
    ELSE SumSquares(u, v, Len(u))

\* Document(page_content=chunk['text'], metadata=chunk['metadata'])
Document(chunk) == [page_content |-> chunk.text, metadata |-> chunk.metadata]

Documents(chunks) == [i \in 1 .. Len(chunks) |-> Document(chunks[i])]

(***************************************************************************)
(* The FAISS store object: the vectors of the index in insertion order     *)
(* (index.ntotal is their number) and index_to_docstore_id joined with the *)
(* docstore: position -> Document.                                         *)
(***************************************************************************)
EmptyStore == [index |-> << >>, idmap |-> << >>]

\* self.index.add(vector): the vectors of the batch go to the end of the index
IndexAdd(store, documents) ==
    [store EXCEPT !.index = @ \o [i \in 1 .. Len(documents) |-> Embed(documents[i].page_content)]]

\* index_to_docstore_id.update({starting_len + j: id_j}): a dict update, which
\* overwrites the positions it names and adds the ones that are new
MapUpdate(store, starting_len, documents) ==
    LET n == IF Len(store.idmap) > starting_len + Len(documents)
             THEN Len(store.idmap) ELSE starting_len + Len(documents)
    IN  [store EXCEPT !.idmap =
            [p \in 1 .. n |->
                IF p > starting_len /\ p <= starting_len + Len(documents)
                THEN documents[p - starting_len] ELSE store.idmap[p]]]

\* variant of AddDocuments: the store is rebuilt from the batch instead of grown
AddDocumentsReplacing(store, documents) ==
    MapUpdate(IndexAdd(EmptyStore, documents), 0, documents)

\* FAISS.add_documents on an existing store, run without interruption
AddDocuments(store, documents) ==
    LET grown == IndexAdd(store, documents)
    IN  MapUpdate(grown, Len(store.idmap), documents)

\* variant of FromDocuments: the first document of the batch is left out
FromDocumentsSkippingFirst(documents) ==
    MapUpdate(IndexAdd(EmptyStore, Tail(documents)), 0, Tail(documents))

\* FAISS.from_documents: a new store holding the batch
FromDocuments(documents) == AddDocuments(EmptyStore, documents)

\* index.ntotal
Ntotal(store) == Len(store.index)

\* index.d: the length the first vector gave the index (IndexFlatL2(len(embeddings[0])))
IndexD(store) == Len(store.index[1])

(***************************************************************************)
(* Search.                                                                 *)
(***************************************************************************)
Min(a, b) == IF a < b THEN a ELSE b

\* variant of IndexSearch: the positions come back farthest first
IndexSearchFarthest(store, qvec, k) ==
    LET n == Len(store.index)
        d(p) == L2(qvec, store.index[p])
        Before(p, r) == d(p) > d(r) \/ (d(p) = d(r) /\ p < r)
        RankOf(p) == Cardinality({r \in 1 .. n : Before(r, p)}) + 1
    IN  [i \in 1 .. Min(k, n) |-> CHOOSE p \in 1 .. n : RankOf(p) = i]

\* index.search(vector, k) of a flat L2 index: the positions of the k nearest
\* vectors, nearest first, the earlier position first among equal distances;
\* fewer than k when the index holds fewer (FAISS pads with -1, which
\* similarity_search_with_score skips)
IndexSearch(store, qvec, k) ==
    LET n == Len(store.index)
        d(p) == L2(qvec, store.index[p])
        Before(p, r) == d(p) < d(r) \/ (d(p) = d(r) /\ p < r)
        RankOf(p) == Cardinality({r \in 1 .. n : Before(r, p)}) + 1
    IN  [i \in 1 .. Min(k, n) |-> CHOOSE p \in 1 .. n : RankOf(p) = i]

\* the loop of similarity_search_with_score over the positions found:
\* index_to_docstore_id[i] raises KeyError for a position the map lacks
LookupRaises(store, positions) ==
    \E i \in 1 .. Len(positions) : positions[i] > Len(store.idmap)

\* lines 98-104: one {'text', 'metadata', 'similarity_score'} per hit
FormatResults(store, qvec, positions) ==
    [i \in 1 .. Len(positions) |->
        [text             |-> store.idmap[positions[i]].page_content,
         metadata         |-> store.idmap[positions[i]].metadata,
         similarity_score |-> L2(qvec, store.index[positions[i]])]]

\* k = top_k or Config.TOP_K_RESULTS
EffectiveK(top_k) == IF top_k = 0 THEN TOP_K_RESULTS ELSE top_k

\* similarity_search_with_score and the formatting, run without interruption
SearchStore(store, query, top_k) ==
    LET positions == IndexSearch(store, Embed(query), EffectiveK(top_k))
    IN  IF LookupRaises(store, positions)
        THEN [raised |-> TRUE, results |-> << >>]
        ELSE [raised |-> FALSE, results |-> FormatResults(store, Embed(query), positions)]

(***************************************************************************)
(* The snapshot directory store_path/faiss_index.                          *)
(***************************************************************************)
\* os.path.exists(load_path) is false
NoSnapshot == [state |-> "none", faiss |-> << >>, pkl |-> << >>]

\* the directory exists and its files do not load: a write that stopped midway
CorruptSnapshot == [state |-> "corrupt", faiss |-> << >>, pkl |-> << >>]

\* variant of SaveLocal: the snapshot lags one record behind the store
SaveLocalLagging(store) ==
    [state |-> "ok",
     faiss |-> SubSeq(store.index, 1, Len(store.index) - 1),
     pkl   |-> SubSeq(store.idmap, 1, Len(store.idmap) - 1)]

\* save_local: index.faiss holds the vectors, index.pkl the docstore and the map
SaveLocal(store) == [state |-> "ok", faiss |-> store.index, pkl |-> store.idmap]

\* variant of LoadLocal: the documents come back in the opposite order
LoadLocalReversed(snapshot) ==
    [index |-> snapshot.faiss,
     idmap |-> [p \in 1 .. Len(snapshot.pkl) |-> snapshot.pkl[Len(snapshot.pkl) + 1 - p]]]

\* FAISS.load_local: the store the two files describe
LoadLocal(snapshot) == [index |-> snapshot.faiss, idmap |-> snapshot.pkl]

\* load_vector_store, lines 142-154: what the call does with the snapshot it
\* finds: "absent" returns False, "loaded" assigns and returns True,
\* "caught" is the except branch, which prints and returns False
LoadBranch(snapshot) ==
    CASE snapshot.state = "none"    -> "absent"
      [] snapshot.state = "corrupt" -> "caught"
      [] OTHER                      -> "loaded"

\* variant of LoadOutcome: the except branch returns True
LoadOutcomeCaughtTrue(branch) ==
    IF branch = "absent"
    THEN [outcome |-> "returned", flag |-> FALSE]
    ELSE [outcome |-> "returned", flag |-> TRUE]

\* variant of LoadOutcome: no except branch, the error of load_local escapes
LoadOutcomeRaising(branch) ==
    CASE branch = "loaded" -> [outcome |-> "returned", flag |-> TRUE]
      [] branch = "absent" -> [outcome |-> "returned", flag |-> FALSE]
      [] OTHER             -> [outcome |-> "raised", flag |-> FALSE]

\* what each branch of load_vector_store hands its caller
LoadOutcome(branch) ==
    CASE branch = "loaded" -> [outcome |-> "returned", flag |-> TRUE]
      [] branch = "absent" -> [outcome |-> "returned", flag |-> FALSE]
      [] OTHER             -> [outcome |-> "returned", flag |-> FALSE]

(***************************************************************************)
(* State.                                                                  *)
(***************************************************************************)
Threads == 1 .. NThreads

\* store objects alive at once: the one the manager holds, one per thread
ObjIds == 1 .. (NThreads + 1)

VARIABLES
    vector_store,   \* self.vector_store: 0 for None, else the store object it refers to
    objs,           \* the store objects, by identity
    disk,           \* the snapshot at store_path/faiss_index
    thr,            \* SpecConc: each request thread's call, position and locals
    calls,          \* SpecConc: calls made so far
    last,           \* the call that completed last and what it handed back
    phase,          \* Spec: how far the caller is into add, save, search
    log,            \* ghost: the chunks inserted since the index was built or loaded
    savedLog,       \* ghost: log as it was when the snapshot on disk was written
    savedStore,     \* ghost: the store as it was when the snapshot on disk was written
    size0,          \* ghost, SpecConc: get_store_size before the first call
    retSum,         \* ghost, SpecConc: sum of the counts add_documents_to_store returned
    retChunks,      \* ghost, SpecConc: the chunks of the batches whose call returned
    ideal,          \* ghost, SpecConc: per store object, the batches put into it, in
                    \* the order they reached the index, each with the thread still
                    \* inserting it (0 once its call has returned)
    llm,            \* SpecAnswer: a call of LLMHandler.generate_answer and its result
    chunker,        \* SpecChunk: a call of TextChunker.chunk_text and its result
    uploads,        \* SpecUpload: the files of Config.UPLOAD_FOLDER, by name
    db,             \* SpecUpload: the documents collection of MongoDBHandler
    response        \* SpecUpload: the request served last and what it answered

vars == <<vector_store, objs, disk, thr, calls, last, phase, log, savedLog, savedStore,
          size0, retSum, retChunks, ideal, embedding_dim, llm, chunker,
          uploads, db, response>>

\* what the request handlers of src/app.py keep beside the three components
app == <<uploads, db, response>>

\* the components beside the vector store
beside == <<llm, chunker, app>>

\* {}: a dict without keys
EmptyDict == [key \in {} |-> key]

\* d.get(key, default)
Get(d, key, default) == IF key \in DOMAIN d THEN d[key] ELSE default

\* generate_answer has not been called
NoAnswer == [answer |-> "", sources |-> << >>, confidence |-> 0]

IdleLLM ==
    [context_chunks |-> << >>, called |-> FALSE, llmOk |-> TRUE,
     result |-> NoAnswer, invoked |-> 0]

\* an argument of a constructor: left out (None), or supplied with a value
NotSupplied == [supplied |-> FALSE, value |-> 0]

Supplied(value) == [supplied |-> TRUE, value |-> value]

\* text_chunker = TextChunker() of src/app.py line 29, built from the
\* configured sizes; chunk_text has not been called
IdleChunker ==
    [args |-> [chunk_size |-> NotSupplied, chunk_overlap |-> NotSupplied],
     splitter |-> "built", chunk_size |-> CHUNK_SIZE, chunk_overlap |-> CHUNK_OVERLAP,
     text |-> << >>, metadata |-> EmptyDict, called |-> FALSE, chunks |-> << >>]

concGhost == <<size0, retSum, retChunks, ideal>>

\* the store self.vector_store refers to (EmptyStore stands in when it is None)
Store == IF vector_store = 0 THEN EmptyStore ELSE objs[vector_store]

\* get_store_size, lines 163-165
get_store_size == IF vector_store = 0 THEN 0 ELSE Ntotal(objs[vector_store])

IdleThread ==
    [pc |-> "idle", chunks |-> << >>, query |-> "", top_k |-> 0,
     ref |-> 0, starting_len |-> 0, positions |-> << >>, views |-> {}]

\* an object identity no thread holds: a new store is built there
FreeObj == CHOOSE o \in ObjIds :
    /\ \A t \in Threads : thr[t].ref # o
    /\ \A q \in ObjIds : (\A t \in Threads : thr[t].ref # q) => o <= q

\* objects nothing refers to are collected
Collect(heap, held) == [o \in ObjIds |-> IF o \in held THEN heap[o] ELSE EmptyStore]

HeldBy(threads) == {threads[t].ref : t \in Threads}

\* self.vector_store = store, by a caller that holds the object nowhere else
Assigned(store) == Collect([objs EXCEPT ![FreeObj] = store], HeldBy(thr) \cup {FreeObj})

NoCall ==
    [op |-> "none", outcome |-> "returned", count |-> 0, flag |-> FALSE,
     results |-> << >>, chunks |-> << >>, query |-> "", top_k |-> 0,
     branch |-> "", preNone |-> TRUE, preSize |-> 0, pre |-> EmptyStore,
     preFailedStart |-> FALSE, views |-> {}, preDisk |-> NoSnapshot]

\* a name of the upload folder without a file, and with one
NoFile == [exists |-> FALSE, content |-> << >>]

File(content) == [exists |-> TRUE, content |-> content]

\* the names files are saved under
Filenames == {"f1.txt", "f2.txt"}

\* no request was served yet
NoRequest ==
    [op |-> "none", status |-> 0, stage |-> "", filename |-> "", document_id |-> 0]

\* the manager after __init__ (lines 18-25), before anything was saved; an
\* empty upload folder and an empty collection
InitCommon ==
    /\ uploads = [filename \in Filenames |-> NoFile]
    /\ db = [documents |-> {}, issued |-> 0]
    /\ response = NoRequest
    /\ disk = NoSnapshot
    /\ thr = [t \in Threads |-> IdleThread]
    /\ calls = 0
    /\ last = NoCall
    /\ phase = 0
    /\ savedLog = << >>
    /\ savedStore = EmptyStore
    /\ retSum = 0
    /\ retChunks = {}

\* the manager of a process that has made no call yet
InitStore ==
    /\ InitCommon
    /\ embedding_dim = ModelDim
    /\ vector_store = 0
    /\ objs = [o \in ObjIds |-> EmptyStore]
    /\ log = << >>
    /\ size0 = 0
    /\ ideal = [o \in ObjIds |-> << >>]

Init ==
    /\ InitCommon
    /\ llm = IdleLLM
    /\ chunker = IdleChunker
    /\ embedding_dim = ModelDim
    /\ vector_store = 0
    /\ objs = [o \in ObjIds |-> EmptyStore]
    /\ log = << >>
    /\ size0 = 0
    /\ ideal = [o \in ObjIds |-> << >>]

\* the process has just started over a snapshot that did not load
StartedOverCorrupt == last.op = "startup" /\ disk.state = "corrupt"

\* what a call records of the state it found
Called(op) ==
    [NoCall EXCEPT !.op = op, !.preNone = (vector_store = 0), !.preSize = get_store_size,
                   !.preFailedStart = StartedOverCorrupt]

(***************************************************************************)
(* Spec: the methods of VectorStoreManager, one caller, one call at a time.*)
(* embedOk is whether the embedding request of the call succeeds.          *)
(***************************************************************************)
seqFrame == <<thr, calls, concGhost, embedding_dim, beside>>

\* variant of AddBranch: index.add takes vectors of any length
AddBranchUnchecked(chunks, embedOk, dimOk) ==
    CASE chunks = << >>                                       -> "empty"
      [] \E i \in 1 .. Len(chunks) : Malformed(chunks[i])     -> "malformed"
      [] ~embedOk                                             -> "embedding"
      [] OTHER                                                -> "inserted"

\* how far an insertion gets. "empty": the list is empty (line 37 raises, line
\* 62 returns 0). "malformed": building the Document list (lines 41-44, 65-68)
\* raises on the first chunk without 'text' or 'metadata'. "embedding": the
\* embedding request inside from_documents / add_documents raises.
\* "dimension": index.add refuses vectors whose length is not index.d.
\* "inserted": the batch is in the index.
AddBranch(chunks, embedOk, dimOk) ==
    CASE chunks = << >>                                       -> "empty"
      [] \E i \in 1 .. Len(chunks) : Malformed(chunks[i])     -> "malformed"
      [] ~embedOk                                             -> "embedding"
      [] ~dimOk                                               -> "dimension"
      [] OTHER                                                -> "inserted"

\* the chunks before the first malformed one
RECURSIVE WellFormedPrefix(_)
WellFormedPrefix(chunks) ==
    IF chunks = << >> \/ Malformed(Head(chunks)) THEN << >>
    ELSE <<Head(chunks)>> \o WellFormedPrefix(Tail(chunks))

\* variant of Inserted: each chunk is inserted as soon as its Document is built
InsertedUpToMalformed(branch, chunks) ==
    CASE branch = "inserted"  -> Documents(chunks)
      [] branch = "malformed" -> Documents(WellFormedPrefix(chunks))
      [] OTHER                -> << >>

\* variant of Inserted: the chunks are embedded and inserted one at a time, and
\* the request for the second one is the one that fails
InsertedBeforeFailure(branch, chunks) ==
    CASE branch = "inserted"  -> Documents(chunks)
      [] branch = "embedding" -> <<Document(chunks[1])>>
      [] OTHER                -> << >>

\* the documents that reach the index: the whole batch once the Document list
\* is built, the embeddings are back and index.add took them; none otherwise
Inserted(branch, chunks) ==
    IF branch = "inserted" THEN Documents(chunks) ELSE << >>

\* index.add takes the vectors of this process's model: the store is new, or
\* its index.d is the length of the vectors
DimensionOk == vector_store = 0 \/ IndexD(Store) = embedding_dim

\* what an insertion records of how it ended; the store it found is kept
\* when the call raised
Inserting(op, chunks, branch) ==
    [Called(op) EXCEPT
        !.chunks = chunks,
        !.branch = branch,
        !.outcome = IF branch \in {"inserted"} \cup (IF op = "add" THEN {"empty"} ELSE {})
                    THEN "returned" ELSE "raised",
        !.pre = IF branch \in {"malformed", "embedding", "dimension"} THEN Store ELSE EmptyStore]

\* create_vector_store(chunks), lines 27-49: ValueError on an empty list; the
\* assignment of line 47 happens only once FAISS.from_documents has returned
create_vector_store(chunks, embedOk) ==
    /\ LET branch == AddBranch(chunks, embedOk, TRUE)
           documents == Inserted(branch, chunks)
           call == Inserting("create", chunks, branch)
       IN  IF documents = << >>
           THEN /\ last' = call
                /\ UNCHANGED <<vector_store, objs, log>>
           ELSE /\ vector_store' = FreeObj
                /\ objs' = Assigned(FromDocuments(documents))
                /\ log' = chunks
                /\ last' = [call EXCEPT !.count = Len(documents)]
    /\ phase' = 0
    /\ UNCHANGED <<disk, savedLog, savedStore, seqFrame>>

\* add_documents_to_store(chunks), lines 51-76
add_documents_to_store(chunks, embedOk) ==
    /\ get_store_size + Len(chunks) <= MaxStore
    /\ LET branch == AddBranch(chunks, embedOk, DimensionOk)
           documents == Inserted(branch, chunks)
           call == Inserting("add", chunks, branch)
       IN  IF documents = << >>
           THEN \* lines 61-62, or an exception on the way to the index
                /\ last' = call
                /\ UNCHANGED <<vector_store, objs, log>>
           ELSE IF vector_store = 0
           THEN \* lines 70-72: return self.create_vector_store(chunks)
                /\ vector_store' = FreeObj
                /\ objs' = Assigned(FromDocuments(documents))
                /\ log' = chunks
                /\ last' = [call EXCEPT !.count = Len(documents)]
           ELSE \* lines 74-76
                /\ objs' = [objs EXCEPT ![vector_store] = AddDocuments(@, documents)]
                /\ log' = log \o chunks
                /\ last' = [call EXCEPT !.count = Len(documents)]
                /\ UNCHANGED vector_store
    /\ phase' = IF AddBranch(chunks, embedOk, DimensionOk) = "inserted" THEN 1 ELSE 0
    /\ UNCHANGED <<disk, savedLog, savedStore, seqFrame>>

\* variant of search_outcome: the query is embedded before the store is looked at
search_outcome_embedding_first(query, top_k, embedOk) ==
    IF ~embedOk
    THEN [raised |-> TRUE, results |-> << >>]
    ELSE IF vector_store = 0
    THEN [raised |-> FALSE, results |-> << >>]
    ELSE SearchStore(Store, query, top_k)

\* what search_similar_documents(query, top_k) hands back, lines 89-106; the
\* embedding request and index.search (which refuses a query vector whose
\* length is not index.d) are reached only when there is a store
search_outcome(query, top_k, embedOk) ==
    IF vector_store = 0
    THEN [raised |-> FALSE, results |-> << >>]
    ELSE IF ~embedOk \/ IndexD(Store) # embedding_dim
    THEN [raised |-> TRUE, results |-> << >>]
    ELSE SearchStore(Store, query, top_k)

\* lines 89-106: what the call hands back; "embedding" marks a call whose
\* embedding request was made and failed
SearchCall(query, top_k, embedOk) ==
    /\ LET call == [Called("search") EXCEPT
                       !.query = query, !.top_k = top_k, !.pre = Store, !.preDisk = disk,
                       !.branch = IF vector_store # 0 /\ ~embedOk THEN "embedding" ELSE ""]
           found == search_outcome(query, top_k, embedOk)
       IN  last' = [call EXCEPT !.outcome = IF found.raised THEN "raised" ELSE "returned",
                                !.results = found.results]
    /\ phase' = IF phase = 2 /\ (vector_store = 0 \/ embedOk) THEN 3 ELSE 0

\* variant of search_similar_documents: every search of a store writes the
\* snapshot again
search_similar_documents_saving(query, top_k, embedOk) ==
    /\ SearchCall(query, top_k, embedOk)
    /\ IF vector_store # 0
       THEN /\ disk' = SaveLocal(Store)
            /\ savedLog' = log
            /\ savedStore' = Store
       ELSE UNCHANGED <<disk, savedLog, savedStore>>
    /\ UNCHANGED <<vector_store, objs, log, seqFrame>>

\* search_similar_documents(query, top_k), lines 78-106: nothing in it assigns
\* self.vector_store, changes the store or writes a file
search_similar_documents(query, top_k, embedOk) ==
    /\ SearchCall(query, top_k, embedOk)
    /\ UNCHANGED <<vector_store, objs, disk, log, savedLog, savedStore, seqFrame>>

\* how a save can end: written; refused before anything is written (makedirs
\* or opening the files fails); stopped while writing, which leaves files that
\* do not load
SaveWays == {"ok", "unwritable", "partial"}

\* save_vector_store(), lines 118-128: what the call does to the disk and what
\* it hands back
SaveToDisk(way) ==
    /\ LET call == [Called("save") EXCEPT !.branch = way, !.pre = Store]
       IN  IF vector_store = 0
           THEN \* lines 118-119
                /\ last' = [call EXCEPT !.outcome = "raised", !.branch = "nostore"]
                /\ UNCHANGED <<disk, savedLog, savedStore>>
           ELSE IF way = "ok"
           THEN /\ disk' = SaveLocal(Store)
                /\ savedLog' = log
                /\ savedStore' = Store
                /\ last' = call
           ELSE IF way = "partial"
           THEN /\ disk' = CorruptSnapshot
                /\ savedLog' = << >>
                /\ savedStore' = EmptyStore
                /\ last' = [call EXCEPT !.outcome = "raised"]
           ELSE /\ last' = [call EXCEPT !.outcome = "raised"]
                /\ UNCHANGED <<disk, savedLog, savedStore>>
    /\ phase' = IF phase = 1 /\ vector_store # 0 /\ way = "ok" THEN 2 ELSE 0

\* variant of save_vector_store: a save that raises drops the store
save_vector_store_dropping(way) ==
    /\ SaveToDisk(way)
    /\ IF vector_store # 0 /\ way # "ok"
       THEN /\ vector_store' = 0
            /\ objs' = Collect(objs, HeldBy(thr))
       ELSE UNCHANGED <<vector_store, objs>>
    /\ UNCHANGED <<log, seqFrame>>

\* save_vector_store(), lines 108-128: nothing in it assigns self.vector_store
\* or changes the store it serialises
save_vector_store(way) ==
    /\ SaveToDisk(way)
    /\ UNCHANGED <<vector_store, objs, log, seqFrame>>

\* variant of LoadAssignment: a load that finds nothing leaves an empty store
LoadAssignmentResetting(branch, snapshot) ==
    IF branch = "loaded"
    THEN [assign |-> TRUE, store |-> LoadLocal(snapshot)]
    ELSE [assign |-> branch = "absent", store |-> EmptyStore]

\* lines 145-151: self.vector_store is assigned only when load_local returned
LoadAssignment(branch, snapshot) ==
    IF branch = "loaded"
    THEN [assign |-> TRUE, store |-> LoadLocal(snapshot)]
    ELSE [assign |-> FALSE, store |-> EmptyStore]

\* load_vector_store(), lines 130-154
load_vector_store ==
    /\ LET branch == LoadBranch(disk)
           given == LoadOutcome(branch)
           effect == LoadAssignment(branch, disk)
       IN  /\ last' = [Called("load") EXCEPT !.branch = branch, !.pre = Store,
                                             !.outcome = given.outcome, !.flag = given.flag]
           /\ IF effect.assign
              THEN /\ vector_store' = FreeObj
                   /\ objs' = Assigned(effect.store)
                   /\ log' = savedLog
              ELSE UNCHANGED <<vector_store, objs, log>>
    /\ phase' = 0
    /\ UNCHANGED <<disk, savedLog, savedStore, seqFrame>>

\* a new process: src/app.py lines 26-32 build a new VectorStoreManager
\* (vector_store None) and call load_vector_store() on it; the disk is kept
StartProcess ==
    /\ LET branch == LoadBranch(disk)
           given == LoadOutcome(branch)
           effect == LoadAssignment(branch, disk)
       IN  /\ last' = [NoCall EXCEPT !.op = "startup", !.branch = branch,
                                     !.outcome = given.outcome, !.flag = given.flag]
           /\ IF effect.assign
              THEN /\ vector_store' = FreeObj
                   /\ objs' = Assigned(effect.store)
                   /\ log' = savedLog
              ELSE /\ vector_store' = 0
                   /\ objs' = [o \in ObjIds |-> EmptyStore]
                   /\ log' = << >>
    /\ phase' = 0
    /\ UNCHANGED <<disk, savedLog, savedStore, thr, calls, concGhost, beside>>

\* the process starts again with the embedding model it had
startup == StartProcess /\ UNCHANGED embedding_dim

\* the process starts with an embedding model that returns vectors of length
\* dim; load_local takes the snapshot whatever the length of its vectors
startup_with_model(dim) == StartProcess /\ embedding_dim' = dim

Next ==
    \/ \E chunks \in Batches, embedOk \in BOOLEAN : create_vector_store(chunks, embedOk)
    \/ \E chunks \in Batches, embedOk \in BOOLEAN : add_documents_to_store(chunks, embedOk)
    \/ \E query \in Queries, top_k \in TopKs, embedOk \in BOOLEAN :
          search_similar_documents(query, top_k, embedOk)
    \/ \E way \in SaveWays : save_vector_store(way)
    \/ load_vector_store
    \/ startup

Spec == Init /\ [][Next]_vars

(***************************************************************************)
(* SpecIngest: one caller that inserts and saves, over processes whose     *)
(* embedding model need not be the one that wrote the snapshot, and with   *)
(* batches that may hold malformed chunks.                                 *)
(***************************************************************************)
Dims == 1 .. MaxDim

InitIngest ==
    /\ InitCommon
    /\ llm = IdleLLM
    /\ chunker = IdleChunker
    /\ embedding_dim \in Dims
    /\ vector_store = 0
    /\ objs = [o \in ObjIds |-> EmptyStore]
    /\ log = << >>
    /\ size0 = 0
    /\ ideal = [o \in ObjIds |-> << >>]

NextIngest ==
    \/ \E chunks \in AnyBatches, embedOk \in BOOLEAN : add_documents_to_store(chunks, embedOk)
    \/ save_vector_store("ok")
    \/ \E dim \in Dims : startup_with_model(dim)

SpecIngest == InitIngest /\ [][NextIngest]_vars

(***************************************************************************)
(* SpecConc: request threads on the one shared manager (src/app.py line 26;*)
(* app.run serves each request on its own thread). A method is cut where   *)
(* it reads or writes shared state: the reads of self.vector_store, and    *)
(* the three steps FAISS.add_documents makes on the store object after the *)
(* embedding request. No method takes a lock.                              *)
(***************************************************************************)
concFrame == <<disk, phase, log, savedLog, savedStore, size0, embedding_dim, beside>>

\* the thread is back from its call: its locals are gone
Returned(t) == [thr EXCEPT ![t] = IdleThread]

\* the heap once the references in threads and in held are all there are
Swept(heap, threads, held) == Collect(heap, HeldBy(threads) \cup held)

SweptIdeal(heap, threads, held) ==
    [o \in ObjIds |-> IF o \in HeldBy(threads) \cup held THEN heap[o] ELSE << >>]

\* the states of store object o between whole batches: every batch whose call
\* has returned, and each batch still being inserted either whole or not at all
AtomicViews(o) ==
    LET batches == ideal[o]
        inflight == {i \in 1 .. Len(batches) : batches[i].owner # 0}
        RECURSIVE Whole(_, _)
        Whole(n, keep) ==
            IF n = 0 THEN << >>
            ELSE Whole(n - 1, keep) \o
                 (IF batches[n].owner = 0 \/ n \in keep THEN batches[n].docs ELSE << >>)
    IN  {FromDocuments(Whole(Len(batches), keep)) : keep \in SUBSET inflight}

\* a call that has just completed
Completed(op) == [NoCall EXCEPT !.op = op]

\* add_documents_to_store is entered: lines 61-70, up to the read of
\* self.vector_store that picks the branch
CallAdd(t, chunks) ==
    /\ thr[t].pc = "idle"
    /\ calls < MaxCalls
    /\ calls' = calls + 1
    /\ IF chunks = << >>
       THEN \* lines 61-62: return 0
            /\ last' = [Completed("add") EXCEPT !.count = 0]
            /\ UNCHANGED thr
       ELSE /\ thr' = [thr EXCEPT ![t] = [IdleThread EXCEPT
                          !.pc = IF vector_store = 0 THEN "create" ELSE "add",
                          !.chunks = chunks]]
            /\ UNCHANGED last
    /\ UNCHANGED <<vector_store, objs, retSum, retChunks, ideal, concFrame>>

\* line 72, create_vector_store: the embedding request, the new store, the
\* assignment of line 47, the return of line 49
CreateStore(t, embedOk) ==
    /\ thr[t].pc = "create"
    /\ thr' = Returned(t)
    /\ IF ~embedOk
       THEN /\ last' = [Completed("add") EXCEPT !.outcome = "raised", !.chunks = thr[t].chunks]
            /\ UNCHANGED <<vector_store, objs, retSum, retChunks, ideal>>
       ELSE /\ vector_store' = FreeObj
            /\ objs' = Swept([objs EXCEPT ![FreeObj] = FromDocuments(Documents(thr[t].chunks))],
                             thr', {FreeObj})
            /\ ideal' = SweptIdeal([ideal EXCEPT ![FreeObj] =
                                       <<[docs |-> Documents(thr[t].chunks), owner |-> 0]>>],
                                   thr', {FreeObj})
            /\ retSum' = retSum + Len(Documents(thr[t].chunks))
            /\ retChunks' = retChunks \cup {thr[t].chunks[i] : i \in 1 .. Len(thr[t].chunks)}
            /\ last' = [Completed("add") EXCEPT !.chunks = thr[t].chunks,
                                             !.count = Len(Documents(thr[t].chunks))]
    /\ UNCHANGED <<calls, concFrame>>

\* line 75: self.vector_store is read again and add_documents called on that
\* object; add_documents first asks for the embeddings
AddBegin(t, embedOk) ==
    /\ thr[t].pc = "add"
    /\ IF ~embedOk
       THEN /\ thr' = Returned(t)
            /\ last' = [Completed("add") EXCEPT !.outcome = "raised", !.chunks = thr[t].chunks]
       ELSE /\ thr' = [thr EXCEPT ![t].pc = "add_index", ![t].ref = vector_store]
            /\ UNCHANGED last
    /\ UNCHANGED <<vector_store, objs, calls, retSum, retChunks, ideal, concFrame>>

\* FAISS.add_documents: self.index.add(vector)
AddIndex(t) ==
    /\ thr[t].pc = "add_index"
    /\ objs' = [objs EXCEPT ![thr[t].ref] = IndexAdd(@, Documents(thr[t].chunks))]
    /\ ideal' = [ideal EXCEPT ![thr[t].ref] =
                    Append(@, [docs |-> Documents(thr[t].chunks), owner |-> t])]
    /\ thr' = [thr EXCEPT ![t].pc = "add_len"]
    /\ UNCHANGED <<vector_store, calls, last, retSum, retChunks, concFrame>>

\* FAISS.add_documents: starting_len = len(self.index_to_docstore_id)
AddLen(t) ==
    /\ thr[t].pc = "add_len"
    /\ thr' = [thr EXCEPT ![t].pc = "add_map",
                          ![t].starting_len = Len(objs[thr[t].ref].idmap)]
    /\ UNCHANGED <<vector_store, objs, calls, last, retSum, retChunks, ideal, concFrame>>

\* FAISS.add_documents: self.index_to_docstore_id.update(index_to_id); then
\* line 76 returns len(documents)
AddMap(t) ==
    /\ thr[t].pc = "add_map"
    /\ thr' = Returned(t)
    /\ objs' = Swept([objs EXCEPT ![thr[t].ref] =
                         MapUpdate(@, thr[t].starting_len, Documents(thr[t].chunks))],
                     thr', {vector_store})
    /\ ideal' = SweptIdeal([ideal EXCEPT ![thr[t].ref] =
                               [i \in 1 .. Len(@) |->
                                   IF @[i].owner = t THEN [@[i] EXCEPT !.owner = 0] ELSE @[i]]],
                           thr', {vector_store})
    /\ retSum' = retSum + Len(Documents(thr[t].chunks))
    /\ retChunks' = retChunks \cup {thr[t].chunks[i] : i \in 1 .. Len(thr[t].chunks)}
    /\ last' = [Completed("add") EXCEPT !.chunks = thr[t].chunks,
                                     !.count = Len(Documents(thr[t].chunks))]
    /\ UNCHANGED <<vector_store, calls, concFrame>>

\* search_similar_documents is entered: lines 89-92
CallSearch(t, query, top_k) ==
    /\ thr[t].pc = "idle"
    /\ calls < MaxCalls
    /\ calls' = calls + 1
    /\ IF vector_store = 0
       THEN \* lines 89-90: return []
            /\ last' = [Completed("search") EXCEPT !.query = query, !.top_k = top_k]
            /\ UNCHANGED thr
       ELSE /\ thr' = [thr EXCEPT ![t] = [IdleThread EXCEPT
                          !.pc = "search", !.query = query, !.top_k = top_k]]
            /\ UNCHANGED last
    /\ UNCHANGED <<vector_store, objs, retSum, retChunks, ideal, concFrame>>

\* line 95: self.vector_store is read again and similarity_search_with_score
\* called on that object; it first asks for the embedding of the query
SearchBegin(t, embedOk) ==
    /\ thr[t].pc = "search"
    /\ IF ~embedOk
       THEN /\ thr' = Returned(t)
            /\ last' = [Completed("search") EXCEPT !.outcome = "raised", !.branch = "embedding",
                                                !.query = thr[t].query, !.top_k = thr[t].top_k]
       ELSE /\ thr' = [thr EXCEPT ![t].pc = "search_index", ![t].ref = vector_store,
                                  ![t].views = AtomicViews(vector_store)]
            /\ UNCHANGED last
    /\ UNCHANGED <<vector_store, objs, calls, retSum, retChunks, ideal, concFrame>>

\* similarity_search_with_score: scores, indices = self.index.search(vector, k)
SearchIndex(t) ==
    /\ thr[t].pc = "search_index"
    /\ thr' = [thr EXCEPT
          ![t].pc = "search_lookup",
          ![t].positions = IndexSearch(objs[thr[t].ref], Embed(thr[t].query),
                                       EffectiveK(thr[t].top_k)),
          ![t].views = @ \cup AtomicViews(thr[t].ref)]
    /\ UNCHANGED <<vector_store, objs, calls, last, retSum, retChunks, ideal, concFrame>>

\* similarity_search_with_score: the loop over the positions found, then
\* lines 97-106
SearchLookup(t) ==
    /\ thr[t].pc = "search_lookup"
    /\ thr' = Returned(t)
    /\ LET store == objs[thr[t].ref]
           call == [Completed("search") EXCEPT !.query = thr[t].query, !.top_k = thr[t].top_k,
                                            !.views = thr[t].views \cup AtomicViews(thr[t].ref)]
       IN  IF LookupRaises(store, thr[t].positions)
           THEN last' = [call EXCEPT !.outcome = "raised", !.branch = "KeyError"]
           ELSE last' = [call EXCEPT !.results =
                            FormatResults(store, Embed(thr[t].query), thr[t].positions)]
    /\ objs' = Swept(objs, thr', {vector_store})
    /\ ideal' = SweptIdeal(ideal, thr', {vector_store})
    /\ UNCHANGED <<vector_store, calls, retSum, retChunks, concFrame>>

\* the threads start on a manager whose store is still None, or on one that
\* already holds a record
InitConc ==
    /\ InitCommon
    /\ llm = IdleLLM
    /\ chunker = IdleChunker
    /\ embedding_dim = ModelDim
    /\ \E start \in {<< >>, <<ChunkA>>} :
          /\ vector_store = IF start = << >> THEN 0 ELSE 1
          /\ objs = [o \in ObjIds |->
                        IF o = 1 /\ start # << >> THEN FromDocuments(Documents(start))
                        ELSE EmptyStore]
          /\ ideal = [o \in ObjIds |->
                         IF o = 1 /\ start # << >>
                         THEN <<[docs |-> Documents(start), owner |-> 0]>> ELSE << >>]
          /\ log = start
          /\ size0 = Len(start)

NextConc ==
    \E t \in Threads :
        \/ \E chunks \in Batches : CallAdd(t, chunks)
        \/ \E embedOk \in BOOLEAN : CreateStore(t, embedOk)
        \/ \E embedOk \in BOOLEAN : AddBegin(t, embedOk)
        \/ AddIndex(t)
        \/ AddLen(t)
        \/ AddMap(t)
        \/ \E query \in Queries, top_k \in TopKs : CallSearch(t, query, top_k)
        \/ \E embedOk \in BOOLEAN : SearchBegin(t, embedOk)
        \/ SearchIndex(t)
        \/ SearchLookup(t)

SpecConc == InitConc /\ [][NextConc]_vars

(***************************************************************************)
(* SpecAnswer: LLMHandler.generate_answer (src/utils/llm_handler.py) on a  *)
(* list of search results. A text is a sequence of characters; distances   *)
(* and confidences are counted in hundredths (0.5 is 50), and the mean is  *)
(* kept as the fraction sum / n.                                           *)
(***************************************************************************)
\* longest list of results handed to generate_answer
MaxContext == 3
\* how far the longest text goes beyond the length of a preview
MaxExtra == 3

\* text[:200]
PREVIEW_LEN == 200

\* the character at position i of the texts: a space ends every word of six
Char(i) == IF i % 7 = 0 THEN " " ELSE <<"a", "b", "c">>[(i % 3) + 1]

TextOfLen(n) == [i \in 1 .. n |-> Char(i)]

\* "..."
Ellipsis == <<".", ".", ".">>

\* what a search found, before its distance: texts below, at and above the
\* length of a preview; metadata with and without 'filename' and
\* 'chunk_index'; a result without 'metadata'
Hits ==
    <<[text |-> TextOfLen(1),
       metadata |-> [filename |-> "f1.txt", chunk_index |-> 2, chunk_total |-> 3]],
      [text |-> TextOfLen(PREVIEW_LEN - 1), metadata |-> [filename |-> "f2.txt"]],
      [text |-> TextOfLen(PREVIEW_LEN), metadata |-> [chunk_index |-> 1]],
      [text |-> TextOfLen(PREVIEW_LEN + 1)],
      [text |-> TextOfLen(PREVIEW_LEN + MaxExtra),
       metadata |-> [filename |-> "f1.txt", chunk_index |-> 0]]>>

\* distances, in hundredths
Scores == {30, 50, 100, 150, 200}

ScoreLists == SeqsUpTo(Scores, MaxContext)

\* the dict search_similar_documents builds for a hit (lines 100-104 of
\* src/utils/vector_store.py)
WithScore(hit, score) ==
    IF "metadata" \in DOMAIN hit
    THEN [text |-> hit.text, metadata |-> hit.metadata, similarity_score |-> score]
    ELSE [text |-> hit.text, similarity_score |-> score]

\* a list of results with these distances, the hits taken in turn from the
\* one after first
ContextOf(scores, first) ==
    [i \in 1 .. Len(scores) |-> WithScore(Hits[((i + first) % Len(Hits)) + 1], scores[i])]

\* variant of TextPreview: the cut is moved back to the end of the last whole word
TextPreviewWordAware(text) ==
    IF Len(text) > PREVIEW_LEN
    THEN LET cut == CHOOSE j \in 0 .. PREVIEW_LEN :
                        /\ j = 0 \/ text[j] = " "
                        /\ \A l \in (j + 1) .. PREVIEW_LEN : text[l] # " "
         IN  SubSeq(text, 1, cut) \o Ellipsis
    ELSE text

\* line 98: text[:200] + "..." if len(text) > 200 else text
TextPreview(text) ==
    IF Len(text) > PREVIEW_LEN THEN SubSeq(text, 1, PREVIEW_LEN) \o Ellipsis ELSE text

\* _format_sources, lines 89-102
format_sources(chunks) ==
    [i \in 1 .. Len(chunks) |->
        LET metadata == Get(chunks[i], "metadata", EmptyDict)
            text == chunks[i].text
        IN  [filename         |-> Get(metadata, "filename", "Unknown"),
             chunk_index      |-> Get(metadata, "chunk_index", 0),
             text_preview     |-> TextPreview(text),
             similarity_score |-> Get(chunks[i], "similarity_score", 0)]]

\* sum(chunk.get("similarity_score", 0.0) for chunk in context_chunks)
RECURSIVE SumScores(_)
SumScores(chunks) ==
    IF chunks = << >> THEN 0
    ELSE Get(Head(chunks), "similarity_score", 0) + SumScores(Tail(chunks))

\* lines 59-61: avg_similarity = sum(...) / len(context_chunks)
AvgSimilarity(chunks) == [sum |-> SumScores(chunks), n |-> Len(chunks)]

\* avg_similarity < bound
Below(avg, bound) == avg.sum < bound * avg.n

\* variant of calculate_confidence: a mean on a threshold goes to the higher value
calculate_confidence_inclusive(avg) ==
    IF avg.sum <= 50 * avg.n THEN 90
    ELSE IF avg.sum <= 100 * avg.n THEN 70
    ELSE IF avg.sum <= 150 * avg.n THEN 50
    ELSE 30

\* _calculate_confidence, lines 104-113
calculate_confidence(avg) ==
    IF Below(avg, 50) THEN 90
    ELSE IF Below(avg, 100) THEN 70
    ELSE IF Below(avg, 150) THEN 50
    ELSE 30

\* line 43
NoDocumentsAnswer == "I don't have any relevant documents to answer this question."

\* lines 69-74: what the except branch returns
ErrorAnswer == [answer |-> "Error generating answer", sources |-> << >>, confidence |-> 0]

\* lines 48-74: the model is invoked; its text comes back with the sources and
\* the confidence, or the exception it raised is turned into ErrorAnswer
Invoked(context_chunks, llmOk) ==
    IF llmOk
    THEN [result |-> [answer     |-> "generated",
                      sources    |-> format_sources(context_chunks),
                      confidence |-> calculate_confidence(AvgSimilarity(context_chunks))],
          invoked |-> 1]
    ELSE [result |-> ErrorAnswer, invoked |-> 1]

\* variant of Answer: no test of the list. With an empty list the model is
\* invoked, and the division by len(context_chunks) raises inside the try
AnswerUnguarded(context_chunks, llmOk) ==
    IF context_chunks = << >>
    THEN [result |-> ErrorAnswer, invoked |-> 1]
    ELSE Invoked(context_chunks, llmOk)

\* generate_answer, lines 37-74: the dict returned and the number of calls of
\* self.llm.invoke
Answer(context_chunks, llmOk) ==
    IF context_chunks = << >>
    THEN [result |-> [answer |-> NoDocumentsAnswer, sources |-> << >>, confidence |-> 0],
          invoked |-> 0]
    ELSE Invoked(context_chunks, llmOk)

\* generate_answer(query, context_chunks); llmOk is whether self.llm.invoke returns
generate_answer(llmOk) ==
    /\ ~llm.called
    /\ LET given == Answer(llm.context_chunks, llmOk)
       IN  llm' = [llm EXCEPT !.called = TRUE, !.llmOk = llmOk,
                              !.result = given.result, !.invoked = @ + given.invoked]
    /\ UNCHANGED <<vector_store, objs, disk, thr, calls, last, phase, log, savedLog,
                   savedStore, concGhost, embedding_dim, chunker, app>>

InitAnswer ==
    /\ InitStore
    /\ chunker = IdleChunker
    /\ \E scores \in ScoreLists, first \in 0 .. (Len(Hits) - 1) :
          llm = [IdleLLM EXCEPT !.context_chunks = ContextOf(scores, first)]

NextAnswer == \E llmOk \in BOOLEAN : generate_answer(llmOk)

SpecAnswer == InitAnswer /\ [][NextAnswer]_vars

(***************************************************************************)
(* SpecChunk: TextChunker.chunk_text (src/utils/text_chunker.py). A text   *)
(* is a sequence of characters. split_text is the one of langchain's       *)
(* RecursiveCharacterTextSplitter as the source configures it: the         *)
(* separators of line 29, the separator kept at the head of the piece      *)
(* that follows it, every chunk stripped of surrounding whitespace.        *)
(***************************************************************************)
\* longest text handed to chunk_text
MaxText == 4
\* largest chunk_size of a TextChunker
MaxChunkSize == 3

\* the characters of the texts: a letter, a full stop, a space, a line break
Alphabet == {"a", ".", " ", "\n"}

Texts == SeqsUpTo(Alphabet, MaxText)

Whitespace == {" ", "\n"}

\* text.strip()
RECURSIVE StripLeft(_)
StripLeft(text) ==
    IF text # << >> /\ Head(text) \in Whitespace THEN StripLeft(Tail(text)) ELSE text

RECURSIVE StripRight(_)
StripRight(text) ==
    IF text # << >> /\ text[Len(text)] \in Whitespace
    THEN StripRight(SubSeq(text, 1, Len(text) - 1)) ELSE text

Strip(text) == StripRight(StripLeft(text))

\* line 29: separators=["\n\n", "\n", ". ", " ", ""]
Separators == <<<<"\n", "\n">>, <<"\n">>, <<".", " ">>, <<" ">>, << >>>>

\* the separator stands in the text at position i
At(separator, text, i) ==
    /\ i + Len(separator) - 1 <= Len(text)
    /\ \A j \in 1 .. Len(separator) : text[i + j - 1] = separator[j]

\* re.search(separator, text)
Occurs(separator, text) == \E i \in 1 .. Len(text) : At(separator, text, i)

\* re.split(separator, text): the pieces between the occurrences of a
\* separator that is not empty, found from the left, none overlapping
RECURSIVE Pieces(_, _, _)
Pieces(separator, text, from) ==
    IF ~\E i \in from .. Len(text) : At(separator, text, i)
    THEN <<SubSeq(text, from, Len(text))>>
    ELSE LET i == CHOOSE i \in from .. Len(text) :
                      /\ At(separator, text, i)
                      /\ \A l \in from .. (i - 1) : ~At(separator, text, l)
         IN  <<SubSeq(text, from, i - 1)>> \o Pieces(separator, text, i + Len(separator))

\* _split_text_with_regex with keep_separator: each piece but the first
\* carries the separator before it; list(text) for the empty separator;
\* empty pieces are left out
SplitKeeping(separator, text) ==
    LET pieces == IF separator = << >> THEN [i \in 1 .. Len(text) |-> <<text[i]>>]
                  ELSE LET bare == Pieces(separator, text, 1)
                       IN  [i \in 1 .. Len(bare) |->
                               IF i = 1 THEN bare[i] ELSE separator \o bare[i]]
    IN  SelectSeq(pieces, LAMBDA piece : piece # << >>)

\* "".join(docs)
RECURSIVE Join(_)
Join(docs) == IF docs = << >> THEN << >> ELSE Head(docs) \o Join(Tail(docs))

\* variant of JoinDocs: the joined text is kept as it is (strip_whitespace off)
JoinDocsUnstripped(docs) == IF Join(docs) = << >> THEN << >> ELSE <<Join(docs)>>

\* _join_docs: the joined text stripped, None when nothing is left
JoinDocs(docs) == IF Strip(Join(docs)) = << >> THEN << >> ELSE <<Strip(Join(docs))>>

\* the while loop of _merge_splits: pieces leave the head of current_doc while
\* it is longer than chunk_overlap, or too long to take the next piece
RECURSIVE PopFront(_, _, _, _)
PopFront(current_doc, len, chunk_size, chunk_overlap) ==
    LET total == Len(Join(current_doc))
    IN  IF total > chunk_overlap \/ (total + len > chunk_size /\ total > 0)
        THEN PopFront(Tail(current_doc), len, chunk_size, chunk_overlap)
        ELSE current_doc

\* _merge_splits(splits, ""): consecutive pieces are joined into chunks of at
\* most chunk_size, each chunk starting with the tail of the one before
RECURSIVE MergeSplits(_, _, _, _, _)
MergeSplits(splits, current_doc, docs, chunk_size, chunk_overlap) ==
    IF splits = << >> THEN docs \o JoinDocs(current_doc)
    ELSE LET d == Head(splits)
         IN  IF Len(Join(current_doc)) + Len(d) > chunk_size
             THEN MergeSplits(Tail(splits),
                              Append(PopFront(current_doc, Len(d), chunk_size, chunk_overlap), d),
                              docs \o JoinDocs(current_doc), chunk_size, chunk_overlap)
             ELSE MergeSplits(Tail(splits), Append(current_doc, d), docs,
                              chunk_size, chunk_overlap)

\* _split_text(text, separators): the text is split at the first separator of
\* the list it holds; pieces shorter than chunk_size are merged, a piece that
\* is not is split again with the separators that follow
RECURSIVE SplitText(_, _, _, _)
RECURSIVE Gather(_, _, _, _, _, _)
Gather(splits, good_splits, final_chunks, new_separators, chunk_size, chunk_overlap) ==
    LET merged == IF good_splits = << >> THEN << >>
                  ELSE MergeSplits(good_splits, << >>, << >>, chunk_size, chunk_overlap)
    IN  IF splits = << >> THEN final_chunks \o merged
        ELSE LET s == Head(splits)
             IN  IF Len(s) < chunk_size
                 THEN Gather(Tail(splits), Append(good_splits, s), final_chunks,
                             new_separators, chunk_size, chunk_overlap)
                 ELSE Gather(Tail(splits), << >>,
                             final_chunks \o merged \o
                                 (IF new_separators = << >> THEN <<s>>
                                  ELSE SplitText(s, new_separators, chunk_size, chunk_overlap)),
                             new_separators, chunk_size, chunk_overlap)

SplitText(text, separators, chunk_size, chunk_overlap) ==
    LET found == {i \in 1 .. Len(separators) :
                     separators[i] = << >> \/ Occurs(separators[i], text)}
        i == IF found = {} THEN Len(separators)
             ELSE CHOOSE first \in found : \A other \in found : first <= other
        separator == separators[i]
        new_separators == IF found = {} \/ separator = << >> THEN << >>
                          ELSE SubSeq(separators, i + 1, Len(separators))
    IN  Gather(SplitKeeping(separator, text), << >>, << >>,
               new_separators, chunk_size, chunk_overlap)

\* self.text_splitter.split_text(text)
split_text(text, chunk_size, chunk_overlap) ==
    SplitText(text, Separators, chunk_size, chunk_overlap)

\* the metadata a caller passes: none (None and {} alike give {} on line 50),
\* a filename as the upload path passes, and dicts that hold a key of the
\* name chunk_text sets itself
Metadatas ==
    {EmptyDict,
     [filename |-> "f1.txt"],
     [filename |-> "f1.txt", chunk_index |-> 7],
     [author |-> "x", chunk_total |-> 9]}

\* variant of ChunkMetadata: a key the caller supplied keeps the caller's value
ChunkMetadataCallerFirst(base_metadata, i, total) ==
    LET positional == [chunk_index |-> i, chunk_total |-> total]
    IN  [key \in DOMAIN base_metadata \cup DOMAIN positional |->
            IF key \in DOMAIN base_metadata THEN base_metadata[key] ELSE positional[key]]

\* lines 55-59: {**base_metadata, 'chunk_index': i, 'chunk_total': len(chunks)}
ChunkMetadata(base_metadata, i, total) ==
    LET positional == [chunk_index |-> i, chunk_total |-> total]
    IN  [key \in DOMAIN base_metadata \cup DOMAIN positional |->
            IF key \in DOMAIN positional THEN positional[key] ELSE base_metadata[key]]

\* chunk_text, lines 43-65: what it returns
ChunkObjects(text, metadata, chunk_size, chunk_overlap) ==
    IF text = << >> \/ Strip(text) = << >> THEN << >>
    ELSE LET chunks == split_text(text, chunk_size, chunk_overlap)
         IN  [n \in 1 .. Len(chunks) |->
                 [text |-> chunks[n],
                  metadata |-> ChunkMetadata(metadata, n - 1, Len(chunks))]]

\* chunk_text(text, metadata)
chunk_text ==
    /\ chunker.splitter = "built"
    /\ ~chunker.called
    /\ chunker' = [chunker EXCEPT
          !.called = TRUE,
          !.chunks = ChunkObjects(chunker.text, chunker.metadata,
                                  chunker.chunk_size, chunker.chunk_overlap)]
    /\ UNCHANGED <<vector_store, objs, disk, thr, calls, last, phase, log, savedLog,
                   savedStore, concGhost, embedding_dim, llm, app>>

\* a TextChunker whose splitter was built with chunk_size and a chunk_overlap
\* below it, and the arguments of a call
InitChunk ==
    /\ InitStore
    /\ llm = IdleLLM
    /\ \E text \in Texts, metadata \in Metadatas, chunk_size \in 1 .. MaxChunkSize :
          \E chunk_overlap \in 0 .. (chunk_size - 1) :
              chunker = [IdleChunker EXCEPT !.text = text, !.metadata = metadata,
                                            !.chunk_size = chunk_size,
                                            !.chunk_overlap = chunk_overlap]

NextChunk == chunk_text

SpecChunk == InitChunk /\ [][NextChunk]_vars

(***************************************************************************)
(* SpecConstruct: TextChunker(chunk_size, chunk_overlap), lines 14-30, and *)
(* a chunk_text on the object it built.                                    *)
(***************************************************************************)
\* x or default: the default stands in for None and for every other falsy x
OrDefault(arg, default) ==
    IF arg.supplied /\ arg.value # 0 THEN arg.value ELSE default

\* RecursiveCharacterTextSplitter(chunk_size, chunk_overlap, ...): ValueError
\* when chunk_overlap is larger than chunk_size
SplitterBuilt(chunk_size, chunk_overlap) == chunk_overlap <= chunk_size

\* the sizes a caller passes: small ones and the configured one
SizeArgs == {Supplied(n) : n \in (1 .. MaxChunkSize) \cup {CHUNK_SIZE}}

\* the overlaps a caller passes with a size, or with none: 0 <= o < s
OverlapArgs(size) ==
    {Supplied(o) : o \in {n \in (0 .. MaxChunkSize) \cup {CHUNK_OVERLAP} :
                               n < (IF size.supplied THEN size.value ELSE CHUNK_SIZE)}}

\* TextChunker.__init__, lines 22-30
TextChunker_init ==
    /\ chunker.splitter = "none"
    /\ LET chunk_size == OrDefault(chunker.args.chunk_size, CHUNK_SIZE)
           chunk_overlap == OrDefault(chunker.args.chunk_overlap, CHUNK_OVERLAP)
       IN  chunker' = [chunker EXCEPT
               !.chunk_size = chunk_size,
               !.chunk_overlap = chunk_overlap,
               !.splitter = IF SplitterBuilt(chunk_size, chunk_overlap)
                            THEN "built" ELSE "raised"]
    /\ UNCHANGED <<vector_store, objs, disk, thr, calls, last, phase, log, savedLog,
                   savedStore, concGhost, embedding_dim, llm, app>>

\* a constructor call about to be made, and the text of a later chunk_text
InitConstruct ==
    /\ InitStore
    /\ llm = IdleLLM
    /\ \E text \in Texts, size \in SizeArgs \cup {NotSupplied} :
          \E overlap \in OverlapArgs(size) \cup {NotSupplied} :
              chunker = [IdleChunker EXCEPT
                            !.args = [chunk_size |-> size, chunk_overlap |-> overlap],
                            !.splitter = "none",
                            !.text = text,
                            !.metadata = [filename |-> "f1.txt"]]

NextConstruct == TextChunker_init \/ chunk_text

SpecConstruct == InitConstruct /\ [][NextConstruct]_vars

(***************************************************************************)
(* SpecUpload: the upload and delete handlers of src/app.py, one request   *)
(* at a time, on the components of lines 26-29. A request meets at most    *)
(* one failure of what it calls: fails names it.                           *)
(***************************************************************************)
\* uploads that reach the index
MaxUploads == 2

\* Config.UPLOAD_FOLDER
UPLOAD_FOLDER == "uploads"

\* Config.ALLOWED_EXTENSIONS
ALLOWED_EXTENSIONS == {"pdf", "docx", "txt"}

\* file.filename of a request
RequestNames == {"", "f1.txt", "../f1.txt", "f2.txt", "f3.exe"}

\* request.files: without a 'file' field, or with one of some name
RequestFiles ==
    {[present |-> FALSE, filename |-> ""]} \cup
    {[present |-> TRUE, filename |-> name] : name \in RequestNames}

\* what can fail under an upload: text extraction, the embedding request, the
\* save of the snapshot (SaveWays), the write to the collection
UploadFailures == {"none", "extraction", "embedding", "unwritable", "partial", "database"}

\* filename.rsplit('.', 1)[1].lower(), "" when the name has no '.'
Extension(filename) ==
    CASE filename \in {"f1.txt", "../f1.txt", "f2.txt"} -> "txt"
      [] filename = "f3.exe"                            -> "exe"
      [] OTHER                                          -> ""

\* DocumentProcessor.validate_file_extension
validate_file_extension(filename, allowed_extensions) ==
    Extension(filename) \in allowed_extensions

\* werkzeug's secure_filename: path separators become '_' and leading dots
\* and underscores go
secure_filename(filename) == IF filename = "../f1.txt" THEN "f1.txt" ELSE filename

\* os.path.join(Config.UPLOAD_FOLDER, filename)
FilePath(filename) == <<UPLOAD_FOLDER, filename>>

\* os.path.exists(file_path)
Exists(file_path) == uploads[file_path[2]].exists

\* the characters of a text the embedder knows by name
Spell(word) ==
    CASE word = "alpha" -> <<"a", "l", "p", "h", "a">>
      [] word = "beta"  -> <<"b", "e", "t", "a">>

\* the name of a text given by its characters
Word(text) == CHOOSE word \in {"alpha", "beta"} : Spell(word) = text

\* what an uploaded file holds: nothing, whitespace, a text, the same text
\* with whitespace around it
Contents ==
    {<< >>, <<" ", "\n">>, Spell("alpha"), <<" ">> \o Spell("alpha") \o <<"\n">>}

\* DocumentProcessor.process_document on a file that exists: the text of the
\* file, stripped
process_document(content) == Strip(content)

\* variant of UploadChunks: a text without characters comes back as one chunk
UploadChunksKeepingBlank(text, filename) ==
    LET chunks == ChunkObjects(text, [filename |-> filename],
                               chunker.chunk_size, chunker.chunk_overlap)
    IN  IF chunks = << >> THEN <<[text |-> text, metadata |-> [filename |-> filename]]>>
        ELSE chunks

\* line 89: text_chunker.chunk_text(text, metadata={'filename': filename})
UploadChunks(text, filename) ==
    ChunkObjects(text, [filename |-> filename], chunker.chunk_size, chunker.chunk_overlap)

\* the chunks as VectorStoreManager takes them, each text under its name
Named(chunks) ==
    [n \in 1 .. Len(chunks) |-> [chunks[n] EXCEPT !.text = Word(chunks[n].text)]]

\* how far upload_document gets, lines 53-123
UploadStage(file, text, chunks, fails) ==
    CASE ~file.present                                          -> "nofile"
      [] file.filename = ""                                     -> "noname"
      [] ~validate_file_extension(file.filename, ALLOWED_EXTENSIONS)
                                                                -> "extension"
      [] fails = "extraction"                                   -> "extraction"
      [] text = << >>                                           -> "notext"
      [] chunks = << >>                                         -> "nochunks"
      [] fails = "embedding" \/ ~DimensionOk                    -> "insert"
      [] fails \in {"unwritable", "partial"}                    -> "save"
      [] fails = "database"                                     -> "metadata"
      [] OTHER                                                  -> "processed"

\* the status of the response
UploadStatus(stage) ==
    CASE stage \in {"nofile", "noname", "extension", "notext", "nochunks"} -> 400
      [] stage \in {"extraction", "insert", "save", "metadata"}           -> 500
      [] OTHER                                                            -> 201

\* line 78 was reached: file.save(file_path)
FileSaved(stage) == stage \notin {"nofile", "noname", "extension"}

\* an exception left the inner try: lines 116-120 remove the file
CleanedUp(stage) == stage \in {"extraction", "insert", "save", "metadata"}

\* line 95 was reached: add_documents_to_store(chunks)
VectorsReached(stage) == stage \in {"insert", "save", "metadata", "processed"}

\* variant of VectorsStay: a request that fails takes its vectors back
VectorsStayWhenProcessed(stage) == stage = "processed"

\* line 95 returned: the chunks are in the index, whatever follows
VectorsStay(stage) == stage \in {"save", "metadata", "processed"}

\* insert_document, lines 52-62: the record, under a new uuid4; content is a
\* ghost, what the file held when it was uploaded
DocumentRecord(document_id, filename, chunk_count, content) ==
    [document_id |-> document_id, filename |-> filename, chunk_count |-> chunk_count,
     file_path |-> FilePath(filename), status |-> "processed", content |-> content]

\* the requests that differ in what they do: the file of a request that is
\* turned away before line 78 is not looked at, and a failure counts where
\* the request gets as far as the call that fails
ContentsOf(file) ==
    IF file.present /\ validate_file_extension(file.filename, ALLOWED_EXTENSIONS)
    THEN Contents ELSE {<< >>}

FailuresOf(file, content) ==
    IF ~(file.present /\ validate_file_extension(file.filename, ALLOWED_EXTENSIONS))
    THEN {"none"}
    ELSE IF process_document(content) = << >> THEN {"none", "extraction"}
    ELSE UploadFailures

\* what POST /api/upload (lines 45-123) does when it gets as far as stage;
\* chunks are the chunks handed to the vector store
Serving(file, content, fails, filename, stage, chunks) ==
    LET store == IF ~VectorsStay(stage) THEN Store
                 ELSE IF vector_store = 0 THEN FromDocuments(Documents(chunks))
                 ELSE AddDocuments(Store, Documents(chunks))
        inserted == IF ~VectorsStay(stage) THEN log
                    ELSE IF vector_store = 0 THEN chunks ELSE log \o chunks
        document_id == db.issued + 1
    IN  /\ get_store_size < MaxUploads
        /\ uploads' = IF ~FileSaved(stage) THEN uploads
                      ELSE [uploads EXCEPT ![filename] =
                               IF CleanedUp(stage) THEN NoFile ELSE File(content)]
        /\ IF ~VectorsStay(stage)
           THEN UNCHANGED <<vector_store, objs>>
           ELSE IF vector_store = 0
           THEN /\ vector_store' = FreeObj
                /\ objs' = Assigned(store)
           ELSE /\ objs' = [objs EXCEPT ![vector_store] = store]
                /\ UNCHANGED vector_store
        /\ log' = inserted
        /\ IF stage \in {"metadata", "processed"}
           THEN \* line 98 returned
                /\ disk' = SaveLocal(store)
                /\ savedLog' = inserted
                /\ savedStore' = store
           ELSE IF stage = "save" /\ fails = "partial"
           THEN /\ disk' = CorruptSnapshot
                /\ savedLog' = << >>
                /\ savedStore' = EmptyStore
           ELSE UNCHANGED <<disk, savedLog, savedStore>>
        /\ db' = IF stage = "processed"
                 THEN [documents |-> db.documents \cup
                          {DocumentRecord(document_id, filename, Len(chunks), content)},
                       issued |-> document_id]
                 ELSE db
        /\ response' = [NoRequest EXCEPT
              !.op = "upload", !.stage = stage, !.status = UploadStatus(stage),
              !.filename = IF FileSaved(stage) THEN filename ELSE "",
              !.document_id = IF stage = "processed" THEN document_id ELSE 0]
        /\ UNCHANGED <<thr, calls, last, phase, concGhost, embedding_dim, llm, chunker>>

\* POST /api/upload, lines 45-123: the text of the file and its chunks are
\* computed once
upload_document(file, content, fails) ==
    \E filename \in {secure_filename(file.filename)}, text \in {process_document(content)} :
        \E chunks \in {UploadChunks(text, filename)} :
            \E stage \in {UploadStage(file, text, chunks, fails)} :
                Serving(file, content, fails, filename, stage,
                        IF VectorsReached(stage) THEN Named(chunks) ELSE << >>)

\* the ids a DELETE can name
DocumentIds == 1 .. MaxUploads

\* db_handler.get_document(document_id): the record, none when there is none
get_document(document_id) == {d \in db.documents : d.document_id = document_id}

\* variant of delete_document: the vectors of the document leave the index
\* with its record
delete_document_with_vectors(document_id, dbOk) ==
    LET found == get_document(document_id)
        document == CHOOSE d \in found : TRUE
        kept == {i \in 1 .. Ntotal(Store) :
                    Store.idmap[i].metadata.filename # document.filename}
        Keep(sequence) == [n \in 1 .. Cardinality(kept) |->
                              sequence[CHOOSE i \in kept :
                                  Cardinality({j \in kept : j <= i}) = n]]
    IN  /\ dbOk
        /\ found # {}
        /\ vector_store # 0
        /\ db' = [db EXCEPT !.documents = @ \ found]
        /\ uploads' = [uploads EXCEPT ![document.file_path[2]] = NoFile]
        /\ objs' = [objs EXCEPT ![vector_store] =
                        [index |-> Keep(Store.index), idmap |-> Keep(Store.idmap)]]
        /\ response' = [NoRequest EXCEPT
              !.op = "delete", !.stage = "deleted", !.status = 200,
              !.filename = document.filename, !.document_id = document_id]
        /\ UNCHANGED <<vector_store, disk, log, savedLog, savedStore, thr, calls, last,
                       phase, concGhost, embedding_dim, llm, chunker>>

\* DELETE /api/documents/<document_id>, lines 203-235
delete_document(document_id, dbOk) ==
    LET found == get_document(document_id)
        stage == CASE ~dbOk      -> "error"
                   [] found = {} -> "notfound"
                   [] OTHER      -> "deleted"
        document == CHOOSE d \in found : TRUE
    IN  /\ IF stage = "deleted"
           THEN /\ db' = [db EXCEPT !.documents = @ \ found]
                /\ uploads' = IF Exists(document.file_path)
                              THEN [uploads EXCEPT ![document.file_path[2]] = NoFile]
                              ELSE uploads
           ELSE UNCHANGED <<db, uploads>>
        /\ response' = [NoRequest EXCEPT
              !.op = "delete", !.stage = stage,
              !.status = CASE stage = "error" -> 500 [] stage = "notfound" -> 404
                           [] OTHER -> 200,
              !.filename = IF stage = "deleted" THEN document.filename ELSE "",
              !.document_id = IF stage = "deleted" THEN document_id ELSE 0]
        /\ UNCHANGED <<vector_store, objs, disk, log, savedLog, savedStore, thr, calls,
                       last, phase, concGhost, embedding_dim, llm, chunker>>

InitUpload ==
    /\ InitStore
    /\ llm = IdleLLM
    /\ chunker = IdleChunker

NextUpload ==
    \/ \E file \in RequestFiles :
          \E content \in ContentsOf(file) :
              \E fails \in FailuresOf(file, content) : upload_document(file, content, fails)
    \/ \E document_id \in DocumentIds, dbOk \in BOOLEAN :
          delete_document(document_id, dbOk)

SpecUpload == InitUpload /\ [][NextUpload]_vars

(***************************************************************************)
(* Properties of the request threads (SpecConc).                           *)
(***************************************************************************)
Quiescent == \A t \in Threads : thr[t].pc = "idle"

\* the store holds the chunk: a position with its vector and its document
Searchable(chunk) ==
    \E p \in 1 .. Len(Store.idmap) :
        /\ p <= Len(Store.index)
        /\ Store.index[p] = Embed(chunk.text)
        /\ Store.idmap[p] = Document(chunk)

\* C1: add_documents_to_store calls that overlap, the first ones on a store
\* that is still None included, take effect as if one ran after the other:
\* once every call has returned, get_store_size is the size before plus the
\* sum of the counts returned, and every chunk of every returned batch is in
\* the store.
C1_InsertsSerialized ==
    Quiescent =>
        /\ get_store_size = size0 + retSum
        /\ \A chunk \in retChunks : Searchable(chunk)

\* C2: a search that overlaps an add_documents_to_store never sees part of a
\* batch: unless its own embedding request failed it returns, and its result
\* list is the one some state of the index between whole batches gives.
C2_SearchSeesWholeBatches ==
    (last.op = "search" /\ last.branch # "embedding") =>
        /\ last.outcome = "returned"
        /\ last.views # {} =>
              \E view \in last.views :
                  last.results = SearchStore(view, last.query, last.top_k).results

(***************************************************************************)
(* Properties of a single caller (Spec).                                   *)
(***************************************************************************)
Distance(query, chunk) == L2(Embed(query), Embed(chunk.text))

\* results is a ranking of the k nearest of records: as many as there are, up
\* to k; the i-th distance is the i-th smallest; each result is one of the
\* records, with its text, its metadata and its distance
IsRanking(results, records, query, k) ==
    LET n == Len(records)
        NthSmallest(i) ==
            CHOOSE d \in {Distance(query, records[p]) : p \in 1 .. n} :
                /\ Cardinality({p \in 1 .. n : Distance(query, records[p]) < d}) < i
                /\ i <= Cardinality({p \in 1 .. n : Distance(query, records[p]) <= d})
    IN  /\ Len(results) = Min(k, n)
        /\ \A i \in 1 .. Len(results) :
              /\ results[i].similarity_score = NthSmallest(i)
              /\ \E p \in 1 .. n :
                    /\ records[p].text = results[i].text
                    /\ records[p].metadata = results[i].metadata
                    /\ Distance(query, records[p]) = results[i].similarity_score

\* the snapshot on disk holds exactly these records, in this order
SnapshotHolds(records) ==
    /\ disk.state = "ok"
    /\ Len(disk.faiss) = Len(records)
    /\ Len(disk.pkl) = Len(records)
    /\ \A p \in 1 .. Len(records) :
          /\ disk.faiss[p] = Embed(records[p].text)
          /\ disk.pkl[p].page_content = records[p].text
          /\ disk.pkl[p].metadata = records[p].metadata

\* C3: a caller that inserts, then saves, then searches sees every earlier
\* effect: the snapshot written by the save holds all records inserted so far,
\* the batch just inserted included, and the search that follows returns and
\* ranks over all of them.
C3_InsertSaveSearch ==
    /\ phase >= 2 => SnapshotHolds(log)
    /\ phase = 3 =>
          /\ last.op = "search"
          /\ last.outcome = "returned"
          /\ IsRanking(last.results, log, last.query, EffectiveK(last.top_k))

C3_Witness ==
    /\ phase = 3
    /\ Len(log) = 3
    /\ Len(last.results) = 3
    /\ last.results[1].text = "beta"

C5_Original ==
    (last.op \in {"load", "startup"} /\ disk.state = "corrupt") =>
        last.outcome = "raised"

\* C5, amended: load_vector_store never raises. It returns True exactly when
\* a readable snapshot was loaded, and False both when there is no snapshot
\* and when the snapshot is corrupt: the return value does not tell these two
\* apart.
C5_LoadReturnsFalseOnCorrupt ==
    last.op \in {"load", "startup"} =>
        /\ last.outcome = "returned"
        /\ last.flag = (disk.state = "ok")

C5_Witness ==
    /\ last.op = "load"
    /\ disk.state = "corrupt"
    /\ ~last.flag

\* C6: with no snapshot at the load path, load_vector_store returns False
\* without raising and leaves the index as it was: None stays None (size 0 at
\* a first run), a store in memory keeps its records.
C6_NoSnapshotLoad ==
    /\ (last.op = "load" /\ disk.state = "none") =>
          /\ last.outcome = "returned"
          /\ ~last.flag
          /\ (vector_store = 0) = last.preNone
          /\ Store = last.pre
          /\ get_store_size = last.preSize
    /\ (last.op = "startup" /\ disk.state = "none") =>
          /\ last.outcome = "returned"
          /\ ~last.flag
          /\ vector_store = 0
          /\ get_store_size = 0

C6_Witness ==
    /\ last.op = "load"
    /\ disk.state = "none"
    /\ ~last.preNone
    /\ get_store_size = 2

\* C7: a load that fails at process start does not end the process and
\* leaves the index empty: the call returns, get_store_size is 0, every
\* search returns an empty list, and an insert that follows next builds an
\* index of exactly its own batch.
C7_FailedStartLeavesEmpty ==
    /\ StartedOverCorrupt =>
          /\ last.outcome = "returned"
          /\ ~last.flag
          /\ get_store_size = 0
          /\ \A query \in Queries, top_k \in TopKs :
                search_outcome(query, top_k, TRUE) = [raised |-> FALSE, results |-> << >>]
    /\ (last.op = "add" /\ last.preFailedStart /\ last.chunks # << >>
                        /\ last.outcome = "returned") =>
          /\ last.count = Len(last.chunks)
          /\ get_store_size = Len(last.chunks)
          /\ Store.idmap = Documents(last.chunks)
          /\ log = last.chunks

C7_Witness ==
    /\ last.op = "add"
    /\ last.preFailedStart
    /\ last.outcome = "returned"
    /\ get_store_size = 2
    /\ disk.state = "corrupt"

\* C8: a save that raises (no store yet, destination unwritable, write cut
\* short) leaves the index in memory as it was: same None-ness, same size,
\* and every search gives what it gave before.
C8_FailedSaveKeepsIndex ==
    (last.op = "save" /\ last.outcome = "raised") =>
        /\ (vector_store = 0) = last.preNone
        /\ get_store_size = last.preSize
        /\ \A query \in Queries, top_k \in TopKs :
              search_outcome(query, top_k, TRUE) = SearchStore(last.pre, query, top_k)

C8_Witness ==
    /\ last.op = "save"
    /\ last.outcome = "raised"
    /\ last.branch = "unwritable"
    /\ get_store_size = 2

\* C9: an add_documents_to_store of N >= 1 chunks into an index that is None
\* or empty returns N and makes get_store_size N; one of 0 chunks returns 0
\* and changes neither get_store_size nor whether the store is None.
C9_InsertionCount ==
    (last.op = "add" /\ last.outcome = "returned") =>
        /\ (last.chunks # << >> /\ last.preSize = 0) =>
              /\ last.count = Len(last.chunks)
              /\ get_store_size = Len(last.chunks)
        /\ last.chunks = << >> =>
              /\ last.count = 0
              /\ get_store_size = last.preSize
              /\ (vector_store = 0) = last.preNone

C9_Witness ==
    /\ last.op = "add"
    /\ last.outcome = "returned"
    /\ last.preNone
    /\ last.count = 2
    /\ get_store_size = 2

\* C10: in every state get_store_size is the number of records inserted since
\* the index was built (those a load restored included), and an
\* add_documents_to_store never leaves the size smaller than it found it.
C10_SizeCountsInsertions ==
    /\ get_store_size = Len(log)
    /\ last.op = "add" => get_store_size >= last.preSize

C10_Witness ==
    /\ last.op = "add"
    /\ last.outcome = "returned"
    /\ last.preSize = 2
    /\ get_store_size = 3
    /\ savedLog # << >>

\* the index is as the call recorded in last found it: same None-ness, same
\* size, same records in the same order
IndexAsBefore ==
    /\ (vector_store = 0) = last.preNone
    /\ get_store_size = last.preSize
    /\ Store = last.pre

\* C11: an insertion whose batch holds a malformed chunk (one without 'text'
\* or without 'metadata') raises, and none of the batch can be observed: the
\* index is as before, get_store_size included, and every search gives what
\* it gave on the index the call found.
C11_MalformedBatchInsertsNothing ==
    (last.op \in {"add", "create"}
        /\ \E i \in 1 .. Len(last.chunks) : Malformed(last.chunks[i])) =>
        /\ last.outcome = "raised"
        /\ IndexAsBefore
        /\ DimensionOk =>
              \A query \in Queries, top_k \in TopKs :
                  search_outcome(query, top_k, TRUE) =
                      (IF last.preNone THEN [raised |-> FALSE, results |-> << >>]
                       ELSE SearchStore(last.pre, query, top_k))

C11_Witness ==
    /\ last.op = "add"
    /\ last.chunks = <<ChunkB, ChunkNoMetadata>>
    /\ last.outcome = "raised"
    /\ get_store_size = 1

\* C12: when the embedding request fails during an insertion (the one that
\* would create the store included) or during a search, the call raises and
\* the index is not changed: still None or still a store, same size, same
\* records.
C12_EmbeddingFailureLeavesIndex ==
    (last.op \in {"add", "create", "search"} /\ last.branch = "embedding") =>
        /\ last.outcome = "raised"
        /\ IndexAsBefore

C12_Witness ==
    /\ last.op = "add"
    /\ last.branch = "embedding"
    /\ Len(last.chunks) = 2
    /\ last.preNone
    /\ vector_store = 0

\* C13: an insertion of vectors whose length is not the one the first
\* insertion gave the index raises and leaves get_store_size (and the index)
\* as it was, so an insertion that returns had vectors of the length of the
\* index, and all the vectors of an index have one length.
C13_DimensionEnforced ==
    /\ vector_store # 0 =>
          \A p \in 1 .. Len(Store.index) : Len(Store.index[p]) = IndexD(Store)
    /\ (last.op = "add" /\ last.branch = "dimension") =>
          /\ last.outcome = "raised"
          /\ IndexAsBefore
    /\ (last.op = "add" /\ last.outcome = "returned" /\ last.chunks # << >>) =>
          IndexD(Store) = embedding_dim

C13_Witness ==
    /\ last.op = "add"
    /\ last.branch = "dimension"
    /\ last.outcome = "raised"
    /\ get_store_size = 2
    /\ IndexD(Store) = 2
    /\ embedding_dim = 1

\* C14: on an index that is None (the only empty index the manager can hold)
\* search_similar_documents returns an empty list and does not raise, for
\* every query and every top_k, whether or not the embedding service answers.
C14_EmptyIndexSearch ==
    /\ get_store_size = 0 =>
          \A query \in Queries, top_k \in TopKs, embedOk \in BOOLEAN :
              search_outcome(query, top_k, embedOk) = [raised |-> FALSE, results |-> << >>]
    /\ (last.op = "search" /\ last.preSize = 0) =>
          /\ last.outcome = "returned"
          /\ last.results = << >>

C14_Witness ==
    /\ last.op = "search"
    /\ last.preSize = 0
    /\ last.top_k = 2
    /\ disk.state = "corrupt"

\* C15: on an index of n >= 1 records, a search with a positive top_k whose
\* embedding request succeeds returns exactly min(top_k, n) results, nearest
\* first, and they are the min(top_k, n) records nearest the query; with
\* top_k > n every record comes back, ranked.
C15_SearchRanksNearest ==
    (last.op = "search" /\ last.preSize > 0 /\ last.top_k > 0
                        /\ last.branch # "embedding") =>
        /\ last.outcome = "returned"
        /\ Len(last.results) = Min(last.top_k, last.preSize)
        /\ IsRanking(last.results, log, last.query, last.top_k)
        /\ \A i \in 1 .. Len(last.results) - 1 :
              last.results[i].similarity_score <= last.results[i + 1].similarity_score

C15_Witness ==
    /\ last.op = "search"
    /\ last.preSize = 3
    /\ last.top_k = 2
    /\ Len(last.results) = 2
    /\ last.results[1].similarity_score < last.results[2].similarity_score

\* C16: search_similar_documents only reads: whatever the query, the top_k
\* and the outcome, the index has the size, the records and the order it had
\* before the call, and the snapshot on disk is the one that was there.
C16_SearchOnlyReads ==
    last.op = "search" =>
        /\ IndexAsBefore
        /\ disk = last.preDisk

C16_Witness ==
    /\ last.op = "search"
    /\ last.preSize = 3
    /\ Len(last.results) = 2
    /\ disk.state = "ok"
    /\ Len(disk.faiss) = 1

(***************************************************************************)
(* Properties of generate_answer (SpecAnswer).                             *)
(***************************************************************************)
\* C17: with an empty list of search results generate_answer returns
\* confidence 0.0, no sources and the fixed no-relevant-documents answer, and
\* the language model is not invoked.
C17_EmptyResultsFixedAnswer ==
    (llm.called /\ llm.context_chunks = << >>) =>
        /\ llm.result.confidence = 0
        /\ llm.result.sources = << >>
        /\ llm.result.answer = NoDocumentsAnswer
        /\ llm.invoked = 0

C17_Witness ==
    /\ llm.called
    /\ llm.context_chunks = << >>
    /\ ~llm.llmOk

\* the distances of the results, summed
RECURSIVE TotalDistance(_)
TotalDistance(results) ==
    IF results = << >> THEN 0
    ELSE Head(results).similarity_score + TotalDistance(Tail(results))

\* the confidence the table gives a mean distance of total / n (hundredths):
\* 0.9 below 0.5, 0.7 in [0.5, 1.0), 0.5 in [1.0, 1.5), 0.3 from 1.5 on
TableConfidence(total, n) ==
    CASE 2 * total < 100 * n -> 90
      [] total < 100 * n     -> 70
      [] 2 * total < 300 * n -> 50
      [] OTHER               -> 30

\* C18 as stated: for every non-empty list of results the confidence
\* generate_answer returns is the table value of the mean distance.
C18_Original ==
    (llm.called /\ llm.context_chunks # << >>) =>
        llm.result.confidence =
            TableConfidence(TotalDistance(llm.context_chunks), Len(llm.context_chunks))

\* C18, amended: for a non-empty list of results, when the call of the
\* language model returns, the confidence is the table value of the mean of
\* the distances of all the results, so it is one of 0.9, 0.7, 0.5, 0.3 and no
\* list with a smaller or equal mean gets a lower confidence; when the call
\* of the language model raises, generate_answer returns confidence 0.0 with
\* no sources and an error text as the answer.
C18_ConfidenceOfMean ==
    (llm.called /\ llm.context_chunks # << >>) =>
        LET total == TotalDistance(llm.context_chunks)
            n == Len(llm.context_chunks)
        IN  /\ llm.llmOk =>
                  /\ llm.result.confidence = TableConfidence(total, n)
                  /\ llm.result.confidence \in {90, 70, 50, 30}
                  /\ \A scores \in ScoreLists \ {<< >>} :
                        LET other == ContextOf(scores, 0)
                        IN  TotalDistance(other) * n <= total * Len(other) =>
                                Answer(other, TRUE).result.confidence >= llm.result.confidence
            /\ ~llm.llmOk => llm.result = ErrorAnswer

C18_Witness ==
    /\ llm.called
    /\ llm.llmOk
    /\ Len(llm.context_chunks) = 3
    /\ llm.context_chunks[1].similarity_score = 30
    /\ llm.context_chunks[3].similarity_score = 200
    /\ TotalDistance(llm.context_chunks) = 330
    /\ llm.result.confidence = 50

\* C19: when generate_answer renders the sources (the language model
\* returned), there is one source per result, in the order of the results:
\* filename and chunk_index from the metadata ("Unknown" and 0 when absent),
\* similarity_score the distance as given, text_preview the whole text when
\* it has at most 200 characters and else its first 200 characters followed
\* by "...", wherever the words end.
C19_SourcesRendered ==
    (llm.called /\ llm.llmOk /\ llm.context_chunks # << >>) =>
        /\ Len(llm.result.sources) = Len(llm.context_chunks)
        /\ \A i \in 1 .. Len(llm.context_chunks) :
              LET chunk == llm.context_chunks[i]
                  source == llm.result.sources[i]
                  named == "metadata" \in DOMAIN chunk /\ "filename" \in DOMAIN chunk.metadata
                  placed == "metadata" \in DOMAIN chunk
                                /\ "chunk_index" \in DOMAIN chunk.metadata
              IN  /\ source.filename = IF named THEN chunk.metadata.filename ELSE "Unknown"
                  /\ source.chunk_index = IF placed THEN chunk.metadata.chunk_index ELSE 0
                  /\ source.similarity_score = chunk.similarity_score
                  /\ Len(chunk.text) <= PREVIEW_LEN => source.text_preview = chunk.text
                  /\ Len(chunk.text) > PREVIEW_LEN =>
                        /\ Len(source.text_preview) = PREVIEW_LEN + 3
                        /\ \A j \in 1 .. PREVIEW_LEN : source.text_preview[j] = chunk.text[j]
                        /\ \A j \in 1 .. 3 : source.text_preview[PREVIEW_LEN + j] = "."

C19_Witness ==
    /\ llm.called
    /\ llm.llmOk
    /\ Len(llm.result.sources) = 3
    /\ llm.result.sources[1].filename = "Unknown"
    /\ Len(llm.context_chunks[1].text) = PREVIEW_LEN + 1
    /\ Len(llm.result.sources[1].text_preview) = PREVIEW_LEN + 3
    /\ llm.result.sources[2].chunk_index = 0
    /\ Len(llm.result.sources[3].text_preview) = 1

(***************************************************************************)
(* Properties of chunk_text (SpecChunk).                                   *)
(***************************************************************************)
\* the i-th chunk (from 0) of N has chunk_index = i and chunk_total = N
Positioned ==
    \A n \in 1 .. Len(chunker.chunks) :
        /\ chunker.chunks[n].metadata.chunk_index = n - 1
        /\ chunker.chunks[n].metadata.chunk_total = Len(chunker.chunks)

\* every chunk has these keys of the caller with the values the caller gave
Carries(keys) ==
    \A n \in 1 .. Len(chunker.chunks), key \in keys :
        /\ key \in DOMAIN chunker.chunks[n].metadata
        /\ chunker.chunks[n].metadata[key] = chunker.metadata[key]

\* C20 as stated: the i-th of the N chunks has chunk_index = i and
\* chunk_total = N, and every key the caller supplied is there with the value
\* the caller supplied.
C20_Original ==
    chunker.called => (Positioned /\ Carries(DOMAIN chunker.metadata))

\* C20, amended: the i-th of the N chunks has chunk_index = i and
\* chunk_total = N and every key the caller supplied; each such key other
\* than 'chunk_index' and 'chunk_total' has the caller's value, while a
\* 'chunk_index' or 'chunk_total' of the caller is replaced by the position
\* and the count.
C20_MetadataMerged ==
    chunker.called =>
        /\ Positioned
        /\ Carries(DOMAIN chunker.metadata \ {"chunk_index", "chunk_total"})
        /\ \A n \in 1 .. Len(chunker.chunks) :
              DOMAIN chunker.chunks[n].metadata =
                  DOMAIN chunker.metadata \cup {"chunk_index", "chunk_total"}

C20_Witness ==
    /\ chunker.called
    /\ Len(chunker.chunks) = 3
    /\ chunker.metadata = [filename |-> "f1.txt", chunk_index |-> 7]
    /\ chunker.chunks[3].metadata.chunk_index = 2
    /\ chunker.chunks[3].metadata.filename = "f1.txt"

\* C22: a text that is not blank and no longer than chunk_size comes back as
\* exactly one chunk, whose text is the whole input without its surrounding
\* whitespace, with chunk_index = 0 and chunk_total = 1.
C22_ShortTextOneChunk ==
    (/\ chunker.called
     /\ Strip(chunker.text) # << >>
     /\ Len(chunker.text) <= chunker.chunk_size)
    => /\ Len(chunker.chunks) = 1
       /\ chunker.chunks[1].text = Strip(chunker.text)
       /\ chunker.chunks[1].metadata.chunk_index = 0
       /\ chunker.chunks[1].metadata.chunk_total = 1

C22_Witness ==
    /\ chunker.called
    /\ chunker.text = <<" ", "a", "\n">>
    /\ chunker.chunk_size = 3
    /\ Len(chunker.chunks) = 1
    /\ chunker.chunks[1].text = <<"a">>

(***************************************************************************)
(* Properties of the TextChunker constructor (SpecConstruct).              *)
(***************************************************************************)
\* the value the splitter is to work with: the argument when one was
\* supplied, the configured default when none was
Intended(arg, default) == IF arg.supplied THEN arg.value ELSE default

\* C25: a TextChunker constructed with chunk_size s >= 1 and chunk_overlap o,
\* 0 <= o < s, is built and splits with exactly s and o, o = 0 included; a
\* configured default is used only for an argument that was not supplied.
C25_ExplicitSizesUsed ==
    chunker.splitter # "none" =>
        LET chunk_size == Intended(chunker.args.chunk_size, CHUNK_SIZE)
            chunk_overlap == Intended(chunker.args.chunk_overlap, CHUNK_OVERLAP)
        IN  /\ chunker.chunk_size = chunk_size
            /\ chunker.chunk_overlap = chunk_overlap
            /\ chunk_overlap < chunk_size => chunker.splitter = "built"
            /\ chunker.called =>
                  chunker.chunks = ChunkObjects(chunker.text, chunker.metadata,
                                                chunk_size, chunk_overlap)

(***************************************************************************)
(* Properties of the upload and delete handlers (SpecUpload).              *)
(***************************************************************************)
\* the step served an upload that left a file of this kind of content behind
UploadLeft(blank) ==
    /\ response'.op = "upload"
    /\ response'.filename # ""
    /\ uploads'[response'.filename].exists
    /\ (process_document(uploads'[response'.filename].content) = << >>) = blank

\* C21: chunk_text on a text that is empty or only whitespace returns an
\* empty list, and an upload of such a text is answered without an insert and
\* without a save: index, snapshot and collection are as they were.
C21_BlankTextIndexesNothing ==
    [][UploadLeft(TRUE) =>
          LET content == uploads'[response'.filename].content
          IN  /\ UploadChunks(content, response'.filename) = << >>
              /\ UploadChunks(process_document(content), response'.filename) = << >>
              /\ response'.stage = "notext"
              /\ response'.status = 400
              /\ UNCHANGED <<vector_store, objs, disk, db>>]_vars

C21_Witness ==
    /\ response.op = "upload"
    /\ response.stage = "notext"
    /\ uploads[response.filename].content = <<" ", "\n">>
    /\ get_store_size = 1
    /\ disk.state = "ok"

\* C23: a DELETE that succeeds removes the record of the document and its
\* file and leaves the index alone: get_store_size and the result of every
\* search, the chunks of the deleted document among them, are as before.
C23_DeleteKeepsVectors ==
    [][(response'.op = "delete" /\ response'.status = 200) =>
          /\ \E document \in db.documents :
                /\ document.document_id = response'.document_id
                /\ db'.documents = db.documents \ {document}
                /\ ~uploads'[document.filename].exists
          /\ vector_store' = vector_store
          /\ get_store_size' = get_store_size
          /\ \A query \in Queries, top_k \in TopKs :
                SearchStore(Store', query, top_k) = SearchStore(Store, query, top_k)]_vars

C23_Witness ==
    /\ response.op = "delete"
    /\ response.status = 200
    /\ db.documents = {}
    /\ get_store_size = 2
    /\ \E i \in 1 .. get_store_size : Store.idmap[i].metadata.filename = response.filename
    /\ ~uploads[response.filename].exists

\* C24: an upload that fails after add_documents_to_store returned, in
\* save_vector_store or in insert_document, leaves its vectors in the index
\* of the process and no record of the document: the store has grown, the
\* collection has not.
C24_FailedUploadLeavesVectors ==
    [][(response'.op = "upload" /\ response'.stage \in {"save", "metadata"}) =>
          /\ response'.status = 500
          /\ get_store_size' > get_store_size
          /\ SubSeq(Store'.idmap, 1, get_store_size) = Store.idmap
          /\ \A i \in (get_store_size + 1) .. get_store_size' :
                Store'.idmap[i].metadata.filename = response'.filename
          /\ db' = db]_vars

C24_Witness ==
    /\ response.op = "upload"
    /\ response.stage = "metadata"
    /\ response.status = 500
    /\ get_store_size = 1
    /\ db.documents = {}
    /\ disk.state = "ok"

\* C26: after an upload that saved the file and was not answered 201, the
\* file is no longer in the upload folder.
C26_RejectedUploadLeavesNoFile ==
    (response.op = "upload" /\ response.filename # "" /\ response.status # 201)
        => ~uploads[response.filename].exists

\* C27: every record of the collection names a file that is in the upload
\* folder and holds what the document held when it was uploaded.
C27_RecordsHaveTheirFiles ==
    \A document \in db.documents :
        /\ Exists(document.file_path)
        /\ uploads[document.file_path[2]].content = document.content

====
